---- MODULE Spec2Model ----
(***************************************************************************)
(* Model of the sandbox bootstrap core of the runc sandboxer               *)
(* (src/runc/src/main.rs): the framed pipe channel (read_count, write_all, *)
(* the 512-byte request frame and the 4-byte response frame), the          *)
(* subreaper service loop of fork_sandbox_parent, the double fork of       *)
(* fork_sandbox and the two reap loops.                                    *)
(***************************************************************************)
EXTENDS Integers, Sequences, FiniteSets, TLC

VARIABLES io, fr, reap, procs, kern, srv, mainp, hist

vars == <<io, fr, reap, procs, kern, srv, mainp, hist>>

(***************************************************************************)
(* Program constants.                                                      *)
(***************************************************************************)
IdSize == 64
FrameSize == 512
RespSize == 4
PanicCode == 101
SigKill == 9

(***************************************************************************)
(* Bounds of the model.                                                    *)
(***************************************************************************)
MaxCount == 3
MaxEintr == 2
MaxReq == 2
FirstPid == 253

(***************************************************************************)
(* Byte helpers.                                                           *)
(***************************************************************************)
Zeros(n) == [i \in 1..n |-> 0]

Min(a, b) == IF a < b THEN a ELSE b

\* i32::to_le_bytes: two's complement, least significant byte first.
ToLeBytes(n) ==
  << n % 256, (n \div 256) % 256, (n \div 65536) % 256, (n \div 16777216) % 256 >>

\* i32::from_le_bytes.
FromLeBytes(b) ==
  b[1] + 256 * b[2] + 65536 * b[3]
    + 16777216 * (IF b[4] >= 128 THEN b[4] - 256 ELSE b[4])

(***************************************************************************)
(* String::from_utf8_lossy on a byte sequence; the result is the UTF-8     *)
(* byte sequence of the produced String.  A well-formed sequence is kept,  *)
(* a maximal ill-formed prefix is replaced by U+FFFD (EF BF BD).           *)
(***************************************************************************)
Replacement == <<239, 191, 189>>

IsCont(b) == b >= 128 /\ b <= 191

\* Allowed range of the second byte after lead byte b (empty for a bad lead).
SecondLo(b) == IF b = 224 THEN 160 ELSE IF b = 240 THEN 144 ELSE 128
SecondHi(b) == IF b = 237 THEN 159 ELSE IF b = 244 THEN 143 ELSE 191

\* Width announced by a lead byte, 0 for a byte that cannot start a char.
Utf8Width(b) ==
  IF b < 128 THEN 1
  ELSE IF b >= 194 /\ b <= 223 THEN 2
  ELSE IF b >= 224 /\ b <= 239 THEN 3
  ELSE IF b >= 240 /\ b <= 244 THEN 4
  ELSE 0

\* Number of bytes of the well-formed prefix of the char starting at s[i],
\* and whether the char is complete.
Utf8Scan(s, i) ==
  LET w == Utf8Width(s[i])
      left == Len(s) - i + 1
  IN
  IF w = 0 THEN [n |-> 1, ok |-> FALSE]
  ELSE IF w = 1 THEN [n |-> 1, ok |-> TRUE]
  ELSE IF left < 2 \/ s[i + 1] < SecondLo(s[i]) \/ s[i + 1] > SecondHi(s[i])
       THEN [n |-> 1, ok |-> FALSE]
  ELSE IF w = 2 THEN [n |-> 2, ok |-> TRUE]
  ELSE IF left < 3 \/ ~IsCont(s[i + 2]) THEN [n |-> 2, ok |-> FALSE]
  ELSE IF w = 3 THEN [n |-> 3, ok |-> TRUE]
  ELSE IF left < 4 \/ ~IsCont(s[i + 3]) THEN [n |-> 3, ok |-> FALSE]
  ELSE [n |-> 4, ok |-> TRUE]

\* Position i lies inside the unit that starts at the nearest byte before
\* it that is no continuation byte (a unit absorbs continuation bytes only).
Utf8Absorbed(s, i) ==
  \E d \in 1..3 :
    /\ i - d >= 1
    /\ ~IsCont(s[i - d])
    /\ \A e \in 1..(d - 1) : IsCont(s[i - e])
    /\ Utf8Scan(s, i - d).n > d

\* What the unit starting at position i contributes to the result.
Utf8Unit(s, i) ==
  IF s[i] < 128 THEN <<s[i]>>
  ELSE IF IsCont(s[i]) /\ Utf8Absorbed(s, i) THEN <<>>
  ELSE LET c == Utf8Scan(s, i) IN
       IF c.ok THEN SubSeq(s, i, i + c.n - 1) ELSE Replacement

RECURSIVE Utf8Cat(_, _, _)
Utf8Cat(s, lo, hi) ==
  IF lo > hi THEN <<>>
  ELSE IF lo = hi THEN Utf8Unit(s, lo)
  ELSE LET mid == (lo + hi) \div 2
       IN Utf8Cat(s, lo, mid) \o Utf8Cat(s, mid + 1, hi)

\* The argument is evaluated once and scanned as the value b.
Utf8Lossy(s) == CHOOSE r \in {Utf8Cat(b, 1, Len(b)) : b \in {s}} : TRUE

(***************************************************************************)
(* read_count and write_all: one loop iteration per step.  A system call   *)
(* result is [kind, errno, data, n]: kind "ok" carries the bytes read      *)
(* (data) or the number of bytes written (n), kind "err" carries errno.    *)
(***************************************************************************)
OkRead(d) == [kind |-> "ok", errno |-> "", data |-> d, n |-> Len(d)]
OkWrite(l) == [kind |-> "ok", errno |-> "", data |-> <<>>, n |-> l]
SysErr(e) == [kind |-> "err", errno |-> e, data |-> <<>>, n |-> 0]

\* let mut buf = vec![0u8; count]; let mut idx = 0;
ReadInit(count) == [buf |-> Zeros(count), idx |-> 0, ret |-> "run"]

\* A plausible slip: restart the transfer at the buffer start on EINTR.
ReadStepRestart(st, count, res) ==
  IF res.kind = "err"
  THEN IF res.errno = "EINTR" THEN [st EXCEPT !.idx = 0]
       ELSE [st EXCEPT !.ret = "Err"]
  ELSE LET l == Len(res.data)
           nidx == st.idx + l
       IN [buf |-> SubSeq(st.buf, 1, st.idx) \o res.data
                     \o SubSeq(st.buf, nidx + 1, count),
           idx |-> nidx,
           ret |-> IF nidx = count \/ l = 0 THEN "Ok" ELSE "run"]

\* One iteration of the loop of read_count: read(fd, &mut buf[idx..]).
ReadStep(st, count, res) ==
  IF res.kind = "err"
  THEN IF res.errno = "EINTR" THEN st ELSE [st EXCEPT !.ret = "Err"]
  ELSE LET l == Len(res.data)
           nidx == st.idx + l
       IN [buf |-> SubSeq(st.buf, 1, st.idx) \o res.data
                     \o SubSeq(st.buf, nidx + 1, count),
           idx |-> nidx,
           ret |-> IF nidx = count \/ l = 0 THEN "Ok" ELSE "run"]

\* read_count(fd, count) fed with the results of its successive read calls.
RECURSIVE ReadLoop(_, _, _)
ReadLoop(st, count, script) ==
  IF st.ret # "run" \/ script = <<>> THEN st
  ELSE ReadLoop(ReadStep(st, count, Head(script)), count, Tail(script))

ReadCount(count, script) == ReadLoop(ReadInit(count), count, script)

\* let mut idx = 0; let count = buf.len();
WriteInit == [idx |-> 0, ret |-> "run"]

\* The slice handed to write(fd, &buf[idx..]).
WriteArg(st, buf) == SubSeq(buf, st.idx + 1, Len(buf))

\* One iteration of the loop of write_all.
WriteStep(st, count, res) ==
  IF res.kind = "err"
  THEN IF res.errno = "EINTR" THEN st ELSE [st EXCEPT !.ret = "Err"]
  ELSE LET nidx == st.idx + res.n
       IN [idx |-> nidx, ret |-> IF nidx = count THEN "Ok" ELSE "run"]

(***************************************************************************)
(* The request frame.                                                      *)
(***************************************************************************)
\* Client side of the layout: identifier zero-padded in [0,64), path in
\* [64,512) followed by zero padding.
Encode(id, path) ==
  id \o Zeros(IdSize - Len(id))
     \o path \o Zeros(FrameSize - IdSize - Len(path))

\* let id = String::from_utf8_lossy(&buffer[0..64]).to_string();
DecodeId(buffer) == Utf8Lossy(SubSeq(buffer, 1, IdSize))

\* A plausible slip: search the terminator from the frame start.
ZeroIndexFromStart(buffer) ==
  LET stop == CHOOSE i \in 0..FrameSize :
                /\ i = FrameSize \/ buffer[i + 1] = 0
                /\ \A j \in 0..(i - 1) : buffer[j + 1] # 0
  IN IF stop = FrameSize THEN IdSize ELSE stop

\* zero_index: the first i in [64,512) with buffer[i] = 0, else 64
\* (0-based, as in the source); stop is where the scan ends.
ZeroIndex(buffer) ==
  LET stop == CHOOSE i \in IdSize..FrameSize :
                /\ i = FrameSize \/ buffer[i + 1] = 0
                /\ \A j \in IdSize..(i - 1) : buffer[j + 1] # 0
  IN IF stop = FrameSize THEN IdSize ELSE stop

\* let netns = String::from_utf8_lossy(&buffer[64..zero_index]).to_string();
DecodeNetns(buffer) ==
  Utf8Lossy(SubSeq(buffer, IdSize + 1, ZeroIndex(buffer)))

\* CString::new(s): Err as soon as s holds a zero byte.
CStringNewOk(s) == \A i \in 1..Len(s) : s[i] # 0

\* let comm = format!("[sandbox-{}]", id);
SandboxComm(id) == <<91, 115, 97, 110, 100, 98, 111, 120, 45>> \o id \o <<93>>

(***************************************************************************)
(* Idle values of the parts of the state, used by the                      *)
(* specifications that exercise only one part.                             *)
(***************************************************************************)
IoIdle == [op |-> "idle"]
FrIdle == [pc |-> "idle"]
ReapIdle == [pc |-> "idle"]

(***************************************************************************)
(* Harness for read_count and write_all: the kernel side of one call of    *)
(* either function.  For a read, data is what the peer writes before it    *)
(* closes its end and off counts the bytes already handed out; for a       *)
(* write, data is the caller's buffer and sink is what reached the pipe.   *)
(***************************************************************************)
IoBytes == {0, 7, 255}

IoData == UNION {[1..n -> IoBytes] : n \in 0..MaxCount}

InitIO ==
  /\ io \in {[op |-> "read", count |-> c, data |-> d, off |-> 0,
              st |-> ReadInit(c), sink |-> <<>>, eintr |-> 0, frags |-> 0,
              sawEof |-> FALSE, sawErr |-> FALSE] :
                c \in 0..MaxCount, d \in IoData}
          \cup
          {[op |-> "write", count |-> Len(d), data |-> d, off |-> 0,
              st |-> WriteInit, sink |-> <<>>, eintr |-> 0, frags |-> 0,
              sawEof |-> FALSE, sawErr |-> FALSE] : d \in IoData}

\* What read(fd, &mut buf[idx..]) can return in the current kernel state.
ReadResults ==
  LET room == io.count - io.st.idx
      avail == Len(io.data) - io.off
  IN {SysErr("EIO")}
     \cup (IF io.eintr < MaxEintr THEN {SysErr("EINTR")} ELSE {})
     \cup {OkRead(SubSeq(io.data, io.off + 1, io.off + l)) :
             l \in 1..Min(room, avail)}
     \cup (IF room = 0 \/ avail = 0 THEN {OkRead(<<>>)} ELSE {})

IoReadCall ==
  /\ io.op = "read"
  /\ io.st.ret = "run"
  /\ \E res \in ReadResults :
       io' = [io EXCEPT
                !.st = ReadStep(io.st, io.count, res),
                !.off = io.off + res.n,
                !.eintr = IF res.errno = "EINTR" THEN @ + 1 ELSE @,
                !.frags = IF res.kind = "ok" /\ res.n > 0 THEN @ + 1 ELSE @,
                !.sawEof = @ \/ (res.kind = "ok" /\ res.n = 0
                                   /\ io.st.idx < io.count),
                !.sawErr = @ \/ (res.kind = "err" /\ res.errno # "EINTR")]

\* What write(fd, &buf[idx..]) can return: a short count, EINTR or EPIPE.
WriteResults ==
  LET arg == WriteArg(io.st, io.data)
  IN {SysErr("EPIPE")}
     \cup (IF io.eintr < MaxEintr THEN {SysErr("EINTR")} ELSE {})
     \cup {OkWrite(l) : l \in (IF arg = <<>> THEN {0} ELSE 1..Len(arg))}

IoWriteCall ==
  /\ io.op = "write"
  /\ io.st.ret = "run"
  /\ \E res \in WriteResults :
       io' = [io EXCEPT
                !.st = WriteStep(io.st, io.count, res),
                !.sink = @ \o SubSeq(WriteArg(io.st, io.data), 1, res.n),
                !.eintr = IF res.errno = "EINTR" THEN @ + 1 ELSE @,
                !.frags = IF res.kind = "ok" /\ res.n > 0 THEN @ + 1 ELSE @,
                !.sawErr = @ \/ (res.kind = "err" /\ res.errno # "EINTR")]

(***************************************************************************)
(* Harness for the request frame: a frame is encoded by the client,        *)
(* crosses the pipe in one or two fragments and is decoded as the          *)
(* subreaper loop does.                                                    *)
(***************************************************************************)
EdgeSpan == 2

MaxPath == FrameSize - IdSize - 2

\* The char ch repeated n times.
Rep(ch, n) == [i \in 1..(n * Len(ch)) |-> ch[((i - 1) % Len(ch)) + 1]]

\* a, '/', e-acute, the euro sign.
Chars == {<<97>>, <<47>>, <<195, 169>>, <<226, 130, 172>>}

IdLens == (0..EdgeSpan) \cup ((IdSize - EdgeSpan)..IdSize)
PathLens == (0..EdgeSpan) \cup ((MaxPath - EdgeSpan)..MaxPath)

IdInputs ==
  {Rep(p[1], p[2]) :
     p \in {q \in Chars \X (0..IdSize) : Len(q[1]) * q[2] \in IdLens}}
PathInputs ==
  {Rep(p[1], p[2]) :
     p \in {q \in Chars \X (0..MaxPath) : Len(q[1]) * q[2] \in PathLens}}

FrameCuts == {1, IdSize, IdSize + 1, FrameSize}

InitFrame ==
  fr \in {[pc |-> "enc", id |-> i, path |-> p, cut |-> 0,
           out_id |-> <<>>, out_netns |-> <<>>] :
             i \in IdInputs, p \in PathInputs}

FrameDecode ==
  /\ fr.pc = "enc"
  /\ \E cut \in FrameCuts :
       LET frame == Encode(fr.id, fr.path)
           script == IF cut = FrameSize THEN <<OkRead(frame)>>
                     ELSE <<OkRead(SubSeq(frame, 1, cut)), SysErr("EINTR"),
                            OkRead(SubSeq(frame, cut + 1, FrameSize))>>
           buffer == ReadCount(FrameSize, script).buf
       IN fr' = [fr EXCEPT !.pc = "dec", !.cut = cut,
                            !.out_id = DecodeId(buffer),
                            !.out_netns = DecodeNetns(buffer)]

(***************************************************************************)
(* The process tree.  procs is the kernel's process table, kern the pipes  *)
(* and the pid allocator, srv the local state of the subreaper service,    *)
(* mainp the local state of the main program, hist what an observer has    *)
(* seen (requests sent, responses written, reaped children, monitor        *)
(* notifications).                                                         *)
(***************************************************************************)
MaxInv == MaxReq + 1
Invs == 1..MaxInv

MainPid == FirstPid
SrvPid == FirstPid + 1
Pids == FirstPid..(FirstPid + 1 + 2 * MaxInv)

\* Descriptors: the two ends of the request pipe, of the response pipe and
\* of the handoff pipe of invocation k of fork_sandbox.
ReqR == <<"reqR", 0>>
ReqW == <<"reqW", 0>>
RespR == <<"respR", 0>>
RespW == <<"respW", 0>>
HR(k) == <<"hR", k>>
HW(k) == <<"hW", k>>

Exited(c) == [how |-> "exit", code |-> c]
Signaled(sig) == [how |-> "sig", code |-> sig]
NoStatus == [how |-> "none", code |-> 0]

\* Namespaces of a process: 0 is the namespace of the main program, k the
\* one created for invocation k; kids is the PID namespace of its future
\* children, net is 1 once a network namespace was joined.
HostNs == [pid |-> 0, ipc |-> 0, uts |-> 0, net |-> 0, kids |-> 0]

NoProc ==
  [kind |-> "none", state |-> "none", parent |-> 0, pc |-> "-", req |-> 0,
   fds |-> {}, cloexec |-> {}, status |-> NoStatus, id |-> <<>>,
   netns |-> <<>>, ns |-> HostNs, nspid |-> 0, child |-> 0]

Running(p) == procs[p].state = "run"

\* The processes that hold descriptor fd open.
Holders(fd) == {p \in Pids : Running(p) /\ fd \in procs[p].fds}

\* The requests the callers of the main program issue.
ShortId == <<97, 98, 99>>
FullId == [i \in 1..IdSize |-> IF i % 2 = 0 THEN 48 ELSE 102]
NetnsPath == <<47, 110>>
Requests ==
  {[id |-> ShortId, netns |-> <<>>], [id |-> FullId, netns |-> <<>>],
   [id |-> FullId, netns |-> NetnsPath]}

InitSys ==
  /\ procs = [p \in Pids |->
                IF p = MainPid
                THEN [NoProc EXCEPT !.kind = "main", !.state = "run",
                                    !.fds = {ReqR, ReqW, RespR, RespW},
                                    !.nspid = p]
                ELSE IF p = SrvPid
                THEN [NoProc EXCEPT !.kind = "srv", !.state = "run",
                                    !.parent = MainPid,
                                    !.fds = {ReqR, ReqW, RespR, RespW},
                                    !.nspid = p]
                ELSE NoProc]
  /\ kern = [req |-> <<>>, resp |-> <<>>, h |-> [k \in Invs |-> <<>>],
             nextpid |-> FirstPid + 2]
  /\ srv = [pc |-> "s_drop", cur |-> 0, id |-> <<>>, netns |-> <<>>,
            pid |-> 0, subreaper |-> FALSE, handler |-> FALSE,
            sig |-> FALSE, rd |-> ReadInit(0)]
  /\ mainp = [pc |-> "m_drop", got |-> <<>>, sig |-> FALSE,
              loop |-> FALSE, await |-> 0]
  /\ hist = [reqs |-> <<>>, served |-> <<>>, resps |-> <<>>,
             returned |-> {}, forkfail |-> {}, nsfail |-> {},
             log |-> {}, flog |-> {}, monitor |-> {}, unnotified |-> {},
             kills |-> {}]

(***************************************************************************)
(* Process termination: descriptors are closed, the process becomes a      *)
(* zombie of its parent (or is collected at once when its parent is        *)
(* outside the tree), and its children are reparented to the nearest       *)
(* living subreaper ancestor, else to init (0), which collects zombies.    *)
(***************************************************************************)
ReaperOf(ps, p) ==
  IF ps[p].kind \in {"first", "leader"} /\ ps[SrvPid].state = "run"
       /\ srv.subreaper
  THEN SrvPid ELSE 0

AfterExit(ps, p, st) ==
  LET rp == ReaperOf(ps, p) IN
  [q \in Pids |->
     IF q = p
     THEN [ps[p] EXCEPT !.state = IF ps[p].parent = 0 THEN "reaped"
                                   ELSE "zombie",
                        !.fds = {}, !.cloexec = {}, !.status = st,
                        !.pc = "done"]
     ELSE IF ps[q].parent = p /\ ps[q].state \in {"run", "zombie"}
     THEN [ps[q] EXCEPT !.parent = rp,
                        !.state = IF rp = 0 /\ @ = "zombie" THEN "reaped"
                                  ELSE @]
     ELSE ps[q]]

\* The processes that get SIGCHLD when p terminates: its parent, and the
\* reaper that adopts a zombie child of p.
SigchldTo(ps, p) ==
  {ps[p].parent}
    \cup {ReaperOf(ps, p) : q \in {c \in Pids : ps[c].parent = p
                                     /\ ps[c].state = "zombie"}}

\* A child of the subreaper (first-fork child or adopted leader) terminates.
ChildDies(ps, p, st) ==
  /\ procs' = AfterExit(ps, p, st)
  /\ srv' = [srv EXCEPT !.sig = @ \/ (SrvPid \in SigchldTo(ps, p)
                                        /\ srv.handler)]

\* A panic of the subreaper service (a failed unwrap): exit status 101.
SrvAborts ==
  /\ procs' = AfterExit(procs, SrvPid, Exited(PanicCode))
  /\ srv' = [srv EXCEPT !.pc = "aborted"]
  /\ mainp' = [mainp EXCEPT !.sig = @ \/ procs[SrvPid].parent = MainPid]

(***************************************************************************)
(* The main program: the parent branch of fork_sandbox_parent, then the    *)
(* callers of the bootstrap handle, the sandbox teardown and process exit. *)
(***************************************************************************)
\* drop(reqr); drop(respw);
MainDrop ==
  /\ Running(MainPid) /\ mainp.pc = "m_drop"
  /\ procs' = [procs EXCEPT ![MainPid].fds = @ \ {ReqR, RespW}]
  /\ mainp' = [mainp EXCEPT !.pc = "m_cloexec"]
  /\ UNCHANGED <<io, fr, reap, kern, srv, hist>>

\* fcntl(reqw, F_SETFD(FD_CLOEXEC)); fcntl(respr, F_SETFD(FD_CLOEXEC));
MainCloexec ==
  /\ Running(MainPid) /\ mainp.pc = "m_cloexec"
  /\ procs' = [procs EXCEPT ![MainPid].cloexec = @ \cup {ReqW, RespR}]
  /\ mainp' = [mainp EXCEPT !.pc = "m_ready"]
  /\ UNCHANGED <<io, fr, reap, kern, srv, hist>>

\* The independent callers of the bootstrap handle; each has at most one
\* request outstanding.
Callers == {"a", "b"}

\* A caller writes one request frame; callers do not wait for each other.
SendRequest ==
  /\ Running(MainPid) /\ mainp.pc = "m_ready"
  /\ Len(hist.reqs) < MaxReq
  /\ Len(hist.reqs) - Len(mainp.got) < Cardinality(Callers)
  /\ Holders(ReqR) # {}
  /\ \E rq \in Requests :
       /\ hist' = [hist EXCEPT !.reqs = Append(@, rq)]
       /\ kern' = [kern EXCEPT !.req = Append(@, Len(hist.reqs) + 1)]
  /\ UNCHANGED <<io, fr, reap, procs, srv, mainp>>

\* A waiting caller reads one response frame.
RecvResponse ==
  /\ Running(MainPid) /\ mainp.pc = "m_ready"
  /\ Len(mainp.got) < Len(hist.reqs)
  /\ kern.resp # <<>>
  /\ LET st == ReadCount(RespSize, <<OkRead(Head(kern.resp))>>)
     IN mainp' = [mainp EXCEPT !.got = Append(@, FromLeBytes(st.buf))]
  /\ kern' = [kern EXCEPT !.resp = Tail(@)]
  /\ UNCHANGED <<io, fr, reap, procs, srv, hist>>

\* The teardown path sends SIGKILL to a pid a response carried.
KillSandbox ==
  /\ Running(MainPid) /\ mainp.pc = "m_ready"
  /\ \E j \in 1..Len(mainp.got) :
       LET p == mainp.got[j] IN
       /\ p > 0 /\ p \in Pids /\ Running(p) /\ p \notin hist.kills
       /\ ChildDies(procs, p, Signaled(SigKill))
       /\ hist' = [hist EXCEPT !.kills = @ \cup {p}]
  /\ UNCHANGED <<io, fr, reap, kern, mainp>>

\* The main program exits; its descriptors are closed.
MainExit ==
  /\ Running(MainPid) /\ mainp.pc = "m_ready"
  /\ procs' = AfterExit(procs, MainPid, Exited(0))
  /\ mainp' = [mainp EXCEPT !.pc = "m_exited"]
  /\ UNCHANGED <<io, fr, reap, kern, srv, hist>>
(***************************************************************************)
(* The subreaper service: the child branch of fork_sandbox_parent and the  *)
(* parent branch of fork_sandbox.                                          *)
(***************************************************************************)
SrvRuns == Running(SrvPid)

\* drop(reqw); drop(respr);
SrvDrop ==
  /\ SrvRuns /\ srv.pc = "s_drop"
  /\ procs' = [procs EXCEPT ![SrvPid].fds = @ \ {ReqW, RespR}]
  /\ srv' = [srv EXCEPT !.pc = "s_subreaper"]
  /\ UNCHANGED <<io, fr, reap, kern, mainp, hist>>

\* A plausible slip: the child-subreaper flag is never set.
SrvSkipSubreaper ==
  /\ SrvRuns /\ srv.pc = "s_subreaper"
  /\ srv' = [srv EXCEPT !.pc = "s_comm"]
  /\ UNCHANGED <<io, fr, reap, procs, kern, mainp, hist>>

\* prctl::set_child_subreaper(true).unwrap();
SrvSetSubreaper ==
  /\ SrvRuns /\ srv.pc = "s_subreaper"
  /\ srv' = [srv EXCEPT !.pc = "s_comm", !.subreaper = TRUE]
  /\ UNCHANGED <<io, fr, reap, procs, kern, mainp, hist>>

\* set_process_comm: the prctl calls succeed, or an unwrap panics.
SrvSetComm ==
  /\ SrvRuns /\ srv.pc = "s_comm"
  /\ \/ /\ srv' = [srv EXCEPT !.pc = "s_sigaction"]
        /\ UNCHANGED <<procs, mainp>>
     \/ SrvAborts
  /\ UNCHANGED <<io, fr, reap, kern, hist>>

\* sigaction(SIGCHLD, sandbox_parent_handle_signals)
SrvSigaction ==
  /\ SrvRuns /\ srv.pc = "s_sigaction"
  /\ srv' = [srv EXCEPT !.pc = "s_read", !.handler = TRUE,
                        !.rd = ReadInit(FrameSize)]
  /\ UNCHANGED <<io, fr, reap, procs, kern, mainp, hist>>

\* read_count(reqr, 512).unwrap() and the decoding of the frame.  srv.rd
\* is the state of the read_count call in progress.  The read returns a
\* whole frame, or zero bytes once no write end is open.
SrvReadRequest ==
  /\ SrvRuns /\ srv.pc = "s_read" /\ srv.cur < MaxInv
  /\ kern.req # <<>> \/ Holders(ReqW) = {}
  /\ LET r == IF kern.req # <<>> THEN Head(kern.req) ELSE 0
         data == IF r # 0 THEN Encode(hist.reqs[r].id, hist.reqs[r].netns)
                 ELSE <<>>
     IN \E frame \in {data} :
        \E st \in {ReadLoop(srv.rd, FrameSize, <<OkRead(frame)>>)} :
        IF st.ret = "Ok"
        THEN /\ srv' = [srv EXCEPT !.pc = "s_fork", !.cur = @ + 1,
                                   !.id = DecodeId(st.buf),
                                   !.netns = DecodeNetns(st.buf)]
             /\ kern' = [kern EXCEPT !.req = IF r # 0 THEN Tail(@) ELSE @]
             /\ hist' = [hist EXCEPT !.served = Append(@, r)]
             /\ UNCHANGED <<procs, mainp>>
        ELSE /\ SrvAborts
             /\ UNCHANGED <<kern, hist>>
  /\ UNCHANGED <<io, fr, reap>>

\* let (r, w) = pipe()?; fork()?; drop(w); an Err of pipe or fork is
\* unwrapped by the loop.  The child starts with a copy of the descriptors
\* (both ends of the handoff pipe included) and of id and netns.
SrvFork ==
  /\ SrvRuns /\ srv.pc = "s_fork"
  /\ \/ /\ procs' = [procs EXCEPT
                       ![SrvPid].fds = @ \cup {HR(srv.cur)},
                       ![kern.nextpid] =
                         [NoProc EXCEPT !.kind = "first", !.state = "run",
                            !.parent = SrvPid, !.pc = "f_unshare",
                            !.req = srv.cur,
                            !.fds = procs[SrvPid].fds
                                      \cup {HR(srv.cur), HW(srv.cur)},
                            !.cloexec = procs[SrvPid].cloexec,
                            !.id = srv.id, !.netns = srv.netns,
                            !.ns = procs[SrvPid].ns,
                            !.nspid = kern.nextpid]]
        /\ kern' = [kern EXCEPT !.nextpid = @ + 1]
        /\ srv' = [srv EXCEPT !.pc = "s_handoff", !.rd = ReadInit(RespSize)]
        /\ UNCHANGED <<mainp, hist>>
     \/ /\ SrvAborts
        /\ UNCHANGED <<kern, hist>>
     \/ /\ SrvAborts
        /\ hist' = [hist EXCEPT !.forkfail = @ \cup {srv.cur}]
        /\ UNCHANGED kern
  /\ UNCHANGED <<io, fr, reap>>

\* A fork_sandbox whose parent branch forgets the read end of the handoff
\* pipe (as mem::forget(r) would): the descriptor stays open in the
\* subreaper after the invocation returned.
SrvHandoffReadKeep ==
  /\ SrvRuns /\ srv.pc = "s_handoff"
  /\ kern.h[srv.cur] # <<>> \/ Holders(HW(srv.cur)) = {}
  /\ LET data == SubSeq(kern.h[srv.cur], 1,
                        Min(RespSize, Len(kern.h[srv.cur])))
         st == ReadLoop(srv.rd, RespSize, <<OkRead(data)>>)
     IN IF st.ret = "Ok"
        THEN /\ srv' = [srv EXCEPT !.pc = "s_write",
                                   !.pid = FromLeBytes(st.buf)]
             /\ kern' = [kern EXCEPT !.h[srv.cur] =
                           SubSeq(@, Len(data) + 1, Len(@))]
             /\ hist' = [hist EXCEPT !.returned = @ \cup {srv.cur}]
             /\ UNCHANGED <<mainp, procs>>
        ELSE /\ SrvAborts
             /\ UNCHANGED <<kern, hist>>
  /\ UNCHANGED <<io, fr, reap>>

\* let r = read_count(r, 4)?; pid = i32::from_le_bytes(resp); Ok(pid)
\* The read returns the bytes in the pipe, or zero bytes once the pipe is
\* empty and no write end is open.  r is dropped on return.
SrvHandoffRead ==
  /\ SrvRuns /\ srv.pc = "s_handoff"
  /\ kern.h[srv.cur] # <<>> \/ Holders(HW(srv.cur)) = {}
  /\ LET data == SubSeq(kern.h[srv.cur], 1,
                        Min(RespSize, Len(kern.h[srv.cur])))
         st == ReadLoop(srv.rd, RespSize, <<OkRead(data)>>)
     IN IF st.ret = "Ok"
        THEN /\ srv' = [srv EXCEPT !.pc = "s_write",
                                   !.pid = FromLeBytes(st.buf)]
             /\ procs' = [procs EXCEPT ![SrvPid].fds = @ \ {HR(srv.cur)}]
             /\ kern' = [kern EXCEPT !.h[srv.cur] =
                           SubSeq(@, Len(data) + 1, Len(@))]
             /\ hist' = [hist EXCEPT !.returned = @ \cup {srv.cur}]
             /\ UNCHANGED mainp
        ELSE /\ SrvAborts
             /\ UNCHANGED <<kern, hist>>
  /\ UNCHANGED <<io, fr, reap>>

\* A plausible slip: go back to the read without writing the response.
SrvWriteRespSkip ==
  /\ SrvRuns /\ srv.pc = "s_write"
  /\ srv' = [srv EXCEPT !.pc = "s_read", !.rd = ReadInit(FrameSize)]
  /\ UNCHANGED <<io, fr, reap, procs, kern, mainp, hist>>

\* A plausible slip: the response frame is written twice.
SrvWriteRespTwice ==
  /\ SrvRuns /\ srv.pc = "s_write"
  /\ LET bytes == ToLeBytes(srv.pid)
         entry == [inv |-> srv.cur, bytes |-> bytes]
     IN /\ kern' = [kern EXCEPT !.resp = @ \o <<bytes, bytes>>]
        /\ hist' = [hist EXCEPT !.resps = @ \o <<entry, entry>>]
  /\ srv' = [srv EXCEPT !.pc = "s_read", !.rd = ReadInit(FrameSize)]
  /\ UNCHANGED <<io, fr, reap, procs, mainp>>

\* write_all(&respw, sandbox_pid.to_le_bytes()).unwrap(): EPIPE when no
\* read end of the response pipe is open.
SrvWriteResp ==
  /\ SrvRuns /\ srv.pc = "s_write"
  /\ LET bytes == ToLeBytes(srv.pid)
         res == IF Holders(RespR) = {} THEN SysErr("EPIPE")
                ELSE OkWrite(Len(WriteArg(WriteInit, bytes)))
         st == WriteStep(WriteInit, Len(bytes), res)
     IN IF st.ret = "Ok"
        THEN /\ kern' = [kern EXCEPT !.resp = Append(@, bytes)]
             /\ hist' = [hist EXCEPT
                           !.resps = Append(@, [inv |-> srv.cur,
                                                bytes |-> bytes])]
             /\ srv' = [srv EXCEPT !.pc = "s_read",
                                   !.rd = ReadInit(FrameSize)]
             /\ UNCHANGED <<procs, mainp>>
        ELSE /\ SrvAborts
             /\ UNCHANGED <<kern, hist>>
  /\ UNCHANGED <<io, fr, reap>>

(***************************************************************************)
(* sandbox_parent_handle_signals: the SIGCHLD handler of the subreaper.    *)
(***************************************************************************)
SrvZombies ==
  {q \in Pids : procs[q].parent = SrvPid /\ procs[q].state = "zombie"}

\* The subreaper sleeps in a read: nothing to read, a write end is open.
SrvBlocked ==
  \/ srv.pc = "s_read" /\ kern.req = <<>> /\ Holders(ReqW) # {}
  \/ srv.pc = "s_handoff" /\ kern.h[srv.cur] = <<>>
       /\ Holders(HW(srv.cur)) # {}

\* A plausible slip: one child is collected per delivered signal.
SrvHandlerOne ==
  /\ Running(SrvPid) /\ srv.handler /\ srv.sig
  /\ \E z \in SrvZombies :
       /\ procs' = [procs EXCEPT ![z].state = "reaped"]
       /\ hist' = [hist EXCEPT !.log = @ \cup
                     {[pid |-> z, how |-> procs[z].status.how,
                       code |-> procs[z].status.code]}]
  /\ srv' = [srv EXCEPT
               !.sig = FALSE,
               !.rd = IF SrvBlocked
                      THEN ReadStep(@, Len(@.buf), SysErr("EINTR")) ELSE @]
  /\ UNCHANGED <<io, fr, reap, kern, mainp>>

\* One run of the handler: waitpid(-1, WNOHANG) collects and logs every
\* terminated child until it answers StillAlive or ECHILD.  A read the
\* signal interrupted then returns EINTR to the loop of read_count.
SrvHandler ==
  /\ Running(SrvPid) /\ srv.handler /\ srv.sig
  /\ procs' = [q \in Pids |->
                 IF q \in SrvZombies
                 THEN [procs[q] EXCEPT !.state = "reaped"] ELSE procs[q]]
  /\ hist' = [hist EXCEPT !.log = @ \cup
                {[pid |-> z, how |-> procs[z].status.how,
                  code |-> procs[z].status.code] : z \in SrvZombies}]
  /\ srv' = [srv EXCEPT
               !.sig = FALSE,
               !.rd = IF SrvBlocked
                      THEN ReadStep(@, Len(@.buf), SysErr("EINTR")) ELSE @]
  /\ UNCHANGED <<io, fr, reap, kern, mainp>>

(***************************************************************************)
(* The first-fork child: the outer child branch of fork_sandbox.           *)
(***************************************************************************)
IsFirst(p, pc) == procs[p].kind = "first" /\ Running(p) /\ procs[p].pc = pc

\* drop(r); unshare(CLONE_NEWIPC | CLONE_NEWUTS | CLONE_NEWPID).unwrap():
\* the caller moves to new IPC and UTS namespaces, its future children to
\* a new PID namespace; a failure panics.
FirstUnshare ==
  \E p \in Pids :
    /\ IsFirst(p, "f_unshare")
    /\ \/ /\ procs' = [procs EXCEPT
                         ![p].fds = @ \ {HR(procs[p].req)},
                         ![p].ns = [@ EXCEPT !.ipc = procs[p].req,
                                             !.uts = procs[p].req,
                                             !.kids = procs[p].req],
                         ![p].pc = "f_fork"]
          /\ UNCHANGED <<srv, hist>>
       \/ /\ ChildDies(procs, p, Exited(PanicCode))
          /\ hist' = [hist EXCEPT !.nsfail = @ \cup {procs[p].req}]
    /\ UNCHANGED <<io, fr, reap, kern, mainp>>

\* The second fork: fork().unwrap(); the child is the first process of
\* the new PID namespace.
FirstFork ==
  \E p \in Pids :
    /\ IsFirst(p, "f_fork")
    /\ \/ /\ procs' = [procs EXCEPT
                         ![p].pc = "f_write",
                         ![p].child = kern.nextpid,
                         ![kern.nextpid] =
                           [procs[p] EXCEPT
                              !.kind = "leader", !.parent = p,
                              !.pc = "l_setup", !.child = 0,
                              !.ns = [@ EXCEPT !.pid = procs[p].ns.kids],
                              !.nspid = IF procs[p].ns.kids = procs[p].ns.pid
                                        THEN kern.nextpid ELSE 1]]
          /\ kern' = [kern EXCEPT !.nextpid = @ + 1]
          /\ UNCHANGED <<srv, hist>>
       \/ /\ ChildDies(procs, p, Exited(PanicCode))
          /\ hist' = [hist EXCEPT !.forkfail = @ \cup {procs[p].req}]
          /\ UNCHANGED kern
    /\ UNCHANGED <<io, fr, reap, mainp>>

\* write_all(&w, child.as_raw().to_le_bytes()).unwrap(): EPIPE when no
\* read end of the handoff pipe is open, and the unwrap panics.  The
\* child goes on running after the write: the subreaper may read the
\* handoff and answer before the child exits.
FirstWrite ==
  \E p \in Pids :
    /\ IsFirst(p, "f_write")
    /\ LET bytes == ToLeBytes(procs[p].child)
           res == IF Holders(HR(procs[p].req)) = {} THEN SysErr("EPIPE")
                  ELSE OkWrite(Len(WriteArg(WriteInit, bytes)))
           st == WriteStep(WriteInit, Len(bytes), res)
       IN IF st.ret = "Ok"
          THEN /\ kern' = [kern EXCEPT !.h[procs[p].req] = @ \o bytes]
               /\ procs' = [procs EXCEPT ![p].pc = "f_exit"]
               /\ UNCHANGED srv
          ELSE /\ ChildDies(procs, p, Exited(PanicCode))
               /\ UNCHANGED kern
    /\ UNCHANGED <<io, fr, reap, mainp, hist>>

\* exit(0) of the first-fork child: its descriptors are closed and the
\* sandbox leader passes to the reaper.
FirstExit ==
  \E p \in Pids :
    /\ IsFirst(p, "f_exit")
    /\ ChildDies(procs, p, Exited(0))
    /\ UNCHANGED <<io, fr, reap, kern, mainp, hist>>

\* The children of p that have terminated and are not collected yet.
ZombiesOf(p) ==
  {q \in Pids : procs[q].parent = p /\ procs[q].state = "zombie"}

\* fork keeps the signal dispositions: sandbox_parent_handle_signals is
\* also the SIGCHLD handler of the first-fork child.  When the sandbox
\* leader terminates while the first-fork child still runs, the handler
\* runs in that child and collects and logs the leader; when the child has
\* exited before the signal is delivered, the leader is left to the
\* reaper.  (The leader inherits the handler too and has no child.)
FirstHandler ==
  \E p \in Pids :
    /\ procs[p].kind = "first" /\ Running(p) /\ ZombiesOf(p) # {}
    /\ procs' = [q \in Pids |->
                   IF q \in ZombiesOf(p)
                   THEN [procs[q] EXCEPT !.state = "reaped"] ELSE procs[q]]
    /\ hist' = [hist EXCEPT !.flog = @ \cup
                  {[by |-> p, pid |-> z, how |-> procs[z].status.how,
                    code |-> procs[z].status.code] : z \in ZombiesOf(p)}]
    /\ UNCHANGED <<io, fr, reap, kern, srv, mainp>>

(***************************************************************************)
(* The sandbox leader: the inner child branch of fork_sandbox.             *)
(***************************************************************************)
IsLeader(p, pc) == procs[p].kind = "leader" /\ Running(p) /\ procs[p].pc = pc

\* CString::new(format!("[sandbox-{}]", id)).unwrap(); set_process_comm;
\* if !netns.is_empty() { safe_open_file(..).unwrap(); setns(..).unwrap(); }
\* then loop { pause(); }.  A failed unwrap panics.
LeaderSetup ==
  \E p \in Pids :
    /\ IsLeader(p, "l_setup")
    /\ IF ~CStringNewOk(SandboxComm(procs[p].id))
       THEN /\ ChildDies(procs, p, Exited(PanicCode))
            /\ UNCHANGED hist
       ELSE IF procs[p].netns = <<>>
       THEN /\ procs' = [procs EXCEPT ![p].pc = "l_pause"]
            /\ UNCHANGED <<srv, hist>>
       ELSE \/ /\ procs' = [procs EXCEPT ![p].pc = "l_pause",
                                         ![p].ns.net = 1]
               /\ UNCHANGED <<srv, hist>>
            \/ /\ ChildDies(procs, p, Exited(PanicCode))
               /\ hist' = [hist EXCEPT !.nsfail = @ \cup {procs[p].req}]
    /\ UNCHANGED <<io, fr, reap, kern, mainp>>

(***************************************************************************)
(* handle_signals: the asynchronous exit notifier of the main program.     *)
(***************************************************************************)
\* A plausible slip: the signal number is reported as it is.
ExitCodeRaw(st) == st.code

\* status for Exited(pid, status), 128 + sig for Signaled(pid, sig, _).
ExitCode(st) == IF st.how = "exit" THEN st.code ELSE 128 + st.code

MainZombies ==
  {q \in Pids : procs[q].parent = MainPid /\ procs[q].state = "zombie"}

\* One waitpid(-1, WNOHANG) of the SIGCHLD branch.  The task takes a
\* SIGCHLD from the signal stream when it is not inside the loop.  A
\* terminated child is collected and logged and the task awaits
\* monitor_notify_by_pid; StillAlive or ECHILD ends the loop.
NotifierWait ==
  /\ Running(MainPid) /\ mainp.pc = "m_ready"
  /\ mainp.sig \/ mainp.loop
  /\ mainp.await = 0
  /\ IF MainZombies = {}
     THEN /\ mainp' = [mainp EXCEPT !.loop = FALSE,
                                     !.sig = IF mainp.loop THEN @ ELSE FALSE]
          /\ UNCHANGED procs
     ELSE \E z \in MainZombies :
            /\ procs' = [procs EXCEPT ![z].state = "reaped"]
            /\ mainp' = [mainp EXCEPT !.loop = TRUE, !.await = z,
                                       !.sig = IF mainp.loop THEN @
                                               ELSE FALSE]
  /\ UNCHANGED <<io, fr, reap, kern, srv, hist>>

\* The awaited monitor_notify_by_pid completes: the monitor holds the exit
\* code of the child, or the notification failed, which is only logged;
\* the loop goes on with the next waitpid.
NotifierNotify ==
  /\ Running(MainPid) /\ mainp.pc = "m_ready"
  /\ mainp.await # 0
  /\ \E ok \in BOOLEAN :
       hist' = IF ok
               THEN [hist EXCEPT !.monitor = @ \cup
                       {<<mainp.await, ExitCode(procs[mainp.await].status)>>}]
               ELSE [hist EXCEPT !.unnotified = @ \cup {mainp.await}]
  /\ mainp' = [mainp EXCEPT !.await = 0]
  /\ UNCHANGED <<io, fr, reap, procs, kern, srv>>

(***************************************************************************)
(* Specifications.                                                         *)
(***************************************************************************)
SrvMain ==
  \/ SrvDrop \/ SrvSetSubreaper \/ SrvSetComm \/ SrvSigaction
  \/ SrvReadRequest \/ SrvFork \/ SrvHandoffRead \/ SrvWriteResp

FirstStep == FirstUnshare \/ FirstFork \/ FirstWrite \/ FirstExit

Next ==
  \/ MainDrop \/ MainCloexec \/ SendRequest \/ RecvResponse \/ KillSandbox
  \/ SrvDrop \/ SrvSetSubreaper \/ SrvSetComm \/ SrvSigaction
  \/ SrvReadRequest \/ SrvFork \/ SrvHandoffRead \/ SrvWriteResp
  \/ SrvHandler
  \/ FirstUnshare \/ FirstFork \/ FirstWrite \/ FirstExit \/ FirstHandler
  \/ LeaderSetup
  \/ NotifierWait \/ NotifierNotify

Init == io = IoIdle /\ fr = FrIdle /\ reap = ReapIdle /\ InitSys

Spec == Init /\ [][Next]_vars

\* Every process that can take a step eventually takes one.
FairSpec ==
  /\ Init /\ [][Next]_vars
  /\ WF_vars(SrvMain) /\ WF_vars(SrvHandler)
  /\ WF_vars(FirstStep) /\ WF_vars(LeaderSetup)

NextIO ==
  \/ IoReadCall /\ UNCHANGED <<fr, reap, procs, kern, srv, mainp, hist>>
  \/ IoWriteCall /\ UNCHANGED <<fr, reap, procs, kern, srv, mainp, hist>>

StartIO == InitIO /\ fr = FrIdle /\ reap = ReapIdle /\ InitSys

SpecIO == StartIO /\ [][NextIO]_vars

NextFrame ==
  FrameDecode /\ UNCHANGED <<io, reap, procs, kern, srv, mainp, hist>>

StartFrame == InitFrame /\ io = IoIdle /\ reap = ReapIdle /\ InitSys

SpecFrame == StartFrame /\ [][NextFrame]_vars
\* The lifetime of the main program followed by its exit.
SpecShutdown == Init /\ [][Next \/ MainExit]_vars

(***************************************************************************)
(* Claims.                                                                 *)
(***************************************************************************)
Sent(r) == Len(hist.reqs) >= r
Answered(r) == Len(hist.resps) >= r
RespPid(j) == FromLeBytes(hist.resps[j].bytes)
ReqOf(j) == hist.reqs[hist.served[j]]

\* The j-th response written comes from the j-th invocation of
\* fork_sandbox, which served the j-th request frame sent.
InSendOrder ==
  /\ Len(hist.resps) <= Len(hist.served)
  /\ \A j \in 1..Len(hist.resps) :
       hist.resps[j].inv = j /\ hist.served[j] = j

\* C1 as claimed: every request frame written by the main program is
\* eventually answered with exactly one response frame, and the k-th
\* response written belongs to the k-th request frame read.
C1_AsClaimed ==
  /\ []InSendOrder
  /\ \A r \in 1..MaxReq : Sent(r) ~> Answered(r)

\* C1 amended: every request frame is eventually answered with exactly one
\* response frame, in send order, unless the subreaper service has
\* terminated (a panic on a failed prctl, pipe or first fork).
C1_AnsweredUnlessAborted ==
  /\ []InSendOrder
  /\ \A r \in 1..MaxReq : Sent(r) ~> (Answered(r) \/ ~Running(SrvPid))

\* C1 witness: the service is alive and has answered two requests.
C1_TwoAnswered == Running(SrvPid) /\ Len(hist.resps) >= 2

\* C2: at most one invocation of fork_sandbox is in progress in the
\* subreaper: it reads the next request frame only after it wrote the
\* response of the current one, holds at most one handoff pipe, and no
\* response of a later request precedes the response of an earlier one.
C2_OneInFlight ==
  /\ srv.cur - Len(hist.resps) \in {0, 1}
  /\ srv.pc = "s_read" => srv.cur = Len(hist.resps)
  /\ Cardinality({k \in Invs : HR(k) \in procs[SrvPid].fds}) <= 1
  /\ \A j \in 1..Len(hist.resps) : hist.resps[j].inv = j

\* C2 witness: two callers overlap: the second frame waits in the request
\* pipe while the subreaper waits for the handoff of the first.
C2_Overlap ==
  /\ Len(hist.reqs) >= 2 /\ Len(mainp.got) = 0
  /\ srv.pc = "s_handoff" /\ srv.cur = 1 /\ Len(kern.req) >= 1

\* C3 as claimed: a zero-byte read before count bytes were transferred
\* ends read_count with an error, never with a successful result.
C3_AsClaimed ==
  (io.op = "read" /\ io.count > 0 /\ io.sawEof /\ io.st.ret # "run")
    => io.st.ret = "Err"

\* C4: whatever the fragments and however often EINTR is returned,
\* read_count fills its buffer with exactly the bytes sent, in order, and
\* write_all delivers exactly the bytes of its buffer, in order; EINTR is
\* never surfaced as an error.
C4_PartialIO ==
  /\ (io.op = "read" /\ ~io.sawEof /\ ~io.sawErr) =>
       /\ io.st.ret # "Err"
       /\ io.st.idx = io.off
       /\ SubSeq(io.st.buf, 1, io.st.idx) = SubSeq(io.data, 1, io.st.idx)
       /\ io.st.ret = "Ok" =>
            io.st.idx = io.count /\ io.st.buf = SubSeq(io.data, 1, io.count)
  /\ (io.op = "write" /\ ~io.sawErr) =>
       /\ io.st.ret # "Err"
       /\ io.sink = SubSeq(io.data, 1, io.st.idx)
       /\ io.st.ret = "Ok" => io.sink = io.data

\* C4 witness: a read of several bytes completed from at least two
\* fragments with an EINTR in between.
C4_Fragmented ==
  /\ io.op = "read" /\ io.st.ret = "Ok" /\ io.count >= 2
  /\ io.frags >= 2 /\ io.eintr >= 1 /\ ~io.sawEof

\* C5 as claimed: the pid returned for a request with an empty netns is the
\* second-fork child, process 1 of a new PID namespace in fresh IPC and UTS
\* namespaces, and it stays alive until an external signal terminates it.
C5_AsClaimed ==
  \A j \in 1..Len(hist.resps) :
    (hist.served[j] # 0 /\ ReqOf(j).netns = <<>>) =>
       LET P == RespPid(j) IN
       /\ P \in Pids
       /\ procs[P].kind = "leader" /\ procs[P].req = hist.resps[j].inv
       /\ procs[P].nspid = 1 /\ P # 1
       /\ procs[P].ns.pid # HostNs.pid
       /\ procs[P].ns.ipc # HostNs.ipc /\ procs[P].ns.uts # HostNs.uts
       /\ Running(P) \/ P \in hist.kills

\* C6 as claimed: the response to the request (id "abc", empty netns)
\* decodes to a positive pid, and once SIGKILL was sent to that pid and a
\* reap pass collected it, exit code 137 was reported to the monitor.
C6_AsClaimed ==
  \A j \in 1..Len(hist.resps) :
    (hist.served[j] # 0 /\ ReqOf(j) = [id |-> ShortId, netns |-> <<>>]) =>
       LET P == RespPid(j) IN
       /\ P > 0
       /\ (P \in hist.kills /\ procs[P].state = "reaped") =>
            <<P, ExitCode(Signaled(SigKill))>> \in hist.monitor

\* C7 as claimed: the pid carried in every response frame is the pid of the
\* second-fork child of that invocation, never the first-fork child.
C7_AsClaimed ==
  \A j \in 1..Len(hist.resps) :
    LET P == RespPid(j) IN
    /\ P \in Pids
    /\ procs[P].kind = "leader" /\ procs[P].req = hist.resps[j].inv

\* C8: decoding the frame that encodes (id, path) yields the same path and
\* the identifier followed by its zero padding.
C8_RoundTrip ==
  fr.pc = "dec" =>
    /\ fr.out_netns = fr.path
    /\ fr.out_id = fr.id \o Zeros(IdSize - Len(fr.id))

\* C8 witness: a padded identifier and a path of the greatest length were
\* decoded from a frame that arrived in two fragments.
C8_Decoded ==
  /\ fr.pc = "dec" /\ fr.cut = IdSize + 1
  /\ Len(fr.id) \in 1..(IdSize - 1) /\ Len(fr.path) = MaxPath

\* C9 as claimed: when unshare or the netns open/join fails for a request,
\* no response frame is written for it and no later request is served.
C9_AsClaimed ==
  \A k \in hist.nsfail : Len(hist.resps) < k /\ srv.cur <= k

\* C10 as claimed: fork_sandbox never returns Ok to the request loop for an
\* invocation in which one of the two forks failed.
C10_AsClaimed == hist.forkfail \cap hist.returned = {}

\* What read() on the response pipe returns to a caller: zero bytes
\* (end-of-file) once the pipe is empty and no write end is open.
RespEof == kern.resp = <<>> /\ Holders(RespW) = {}

\* A caller waits for a response and none is in the pipe.
CallerBlocked == Len(mainp.got) < Len(hist.reqs) /\ kern.resp = <<>>

\* C11 as claimed: once the subreaper service has terminated while a
\* caller is blocked reading the response of a pending request, the read
\* eventually observes end-of-file on the response pipe, sandbox leaders
\* created earlier being alive or not.
C11_AsClaimed == (CallerBlocked /\ ~Running(SrvPid)) ~> RespEof

\* C12 as claimed: in every state each end of the request pipe and of the
\* response pipe is held open by the main program and the subreaper
\* service only, never by a first-fork child or a sandbox leader.
C12_AsClaimed ==
  \A fd \in {ReqR, ReqW, RespR, RespW} : Holders(fd) \subseteq {MainPid, SrvPid}

\* The subreaper has entered its request loop.
SrvServing ==
  Running(SrvPid) /\ srv.pc \in {"s_read", "s_fork", "s_handoff", "s_write"}

\* C13 as claimed: once fork_sandbox_parent has established the channel,
\* the request-write and response-read ends of the main program and the
\* request-read and response-write ends of the subreaper all carry the
\* close-on-exec flag.
C13_AsClaimed ==
  /\ (Running(MainPid) /\ mainp.pc = "m_ready") =>
       {ReqW, RespR} \subseteq procs[MainPid].cloexec
  /\ SrvServing => {ReqR, RespW} \subseteq procs[SrvPid].cloexec

(***************************************************************************)
(* Harness for the two reap loops: one pass of                             *)
(* sandbox_parent_handle_signals ("handler") or of the SIGCHLD branch of   *)
(* handle_signals ("notifier") over the children of the calling process,   *)
(* one waitpid(-1, WNOHANG) call per step; in the notifier the awaited     *)
(* monitor_notify_by_pid is a step of its own, other processes running in  *)
(* between.  calls counts the wait calls of the pass, errs the wait errors *)
(* other than ECHILD, afterErr the wait calls made after such an error,    *)
(* pend the child whose notification is awaited, notes the completed calls *)
(* of monitor_notify_by_pid and logged the children the pass collected.    *)
(***************************************************************************)
MaxKids == 2
MaxWaitErr == 2

Kids == 1..MaxKids

KidStatus == {Exited(0), Exited(7), Signaled(SigKill)}

NoKid == [state |-> "none", status |-> NoStatus]

KidStates ==
  {NoKid, [state |-> "run", status |-> NoStatus]}
    \cup {[state |-> "zombie", status |-> st] : st \in KidStatus}

InitReap ==
  reap \in {[who |-> w, pc |-> "wait", kids |-> k, calls |-> 0, errs |-> 0,
             afterErr |-> 0, pend |-> 0, notes |-> <<>>,
             logged |-> <<>>] :
               w \in {"handler", "notifier"}, k \in [Kids -> KidStates]}

ReapZombies(r) == {k \in Kids : r.kids[k].state = "zombie"}

\* What waitpid(-1, WNOHANG) can return: the status of a terminated child,
\* StillAlive when children exist and none has terminated, ECHILD when
\* there is no child, or another error.
WaitResults ==
  {[kind |-> "status", kid |-> k, errno |-> ""] : k \in ReapZombies(reap)}
    \cup (IF ReapZombies(reap) = {}
          THEN IF \E k \in Kids : reap.kids[k].state = "run"
               THEN {[kind |-> "alive", kid |-> 0, errno |-> ""]}
               ELSE {[kind |-> "err", kid |-> 0, errno |-> "ECHILD"]}
          ELSE {})
    \cup (IF reap.errs < MaxWaitErr
          THEN {[kind |-> "err", kid |-> 0, errno |-> "EINVAL"]} ELSE {})

\* One iteration of the loop: the match on the result of waitpid.  The
\* notifier then awaits monitor_notify_by_pid for a collected child.
ReapIter(r, res) ==
  LET called == [r EXCEPT !.calls = @ + 1,
                          !.afterErr = IF r.errs > 0 THEN @ + 1 ELSE @]
  IN
  IF res.kind = "status"
  THEN [called EXCEPT
          !.kids[res.kid].state = "reaped",
          !.logged = Append(@, res.kid),
          !.pend = IF r.who = "notifier" THEN res.kid ELSE @,
          !.pc = IF r.who = "notifier" THEN "notify" ELSE @]
  ELSE IF res.kind = "alive" \/ res.errno = "ECHILD"
  THEN [called EXCEPT !.pc = "done"]
  ELSE [called EXCEPT !.errs = @ + 1]

\* monitor_notify_by_pid(pid, code).await has completed; ok is its
\* outcome, an error being only logged.  The loop goes on.
ReapNotified(r, ok) ==
  [r EXCEPT !.notes = Append(@, [pid |-> r.pend,
                                 code |-> ExitCode(r.kids[r.pend].status),
                                 ok |-> ok]),
            !.pend = 0, !.pc = "wait"]

ReapCall ==
  /\ reap.pc = "wait"
  /\ \E res \in WaitResults : reap' = ReapIter(reap, res)

ReapNotify ==
  /\ reap.pc = "notify"
  /\ \E ok \in BOOLEAN : reap' = ReapNotified(reap, ok)

\* A running child terminates while the pass is going on.
ReapKidDies ==
  /\ reap.pc \in {"wait", "notify"}
  /\ \E k \in Kids, st \in KidStatus :
       /\ reap.kids[k].state = "run"
       /\ reap' = [reap EXCEPT !.kids[k] = [state |-> "zombie", status |-> st]]

NextReap ==
  \/ ReapCall /\ UNCHANGED <<io, fr, procs, kern, srv, mainp, hist>>
  \/ ReapNotify /\ UNCHANGED <<io, fr, procs, kern, srv, mainp, hist>>
  \/ ReapKidDies /\ UNCHANGED <<io, fr, procs, kern, srv, mainp, hist>>

StartReap == InitReap /\ io = IoIdle /\ fr = FrIdle /\ InitSys

SpecReap == StartReap /\ [][NextReap]_vars

\* C14 as claimed: a wait error other than ECHILD ends the pass: no wait
\* call follows it in the same pass.
C14_AsClaimed == reap.pc # "idle" => reap.afterErr = 0

\* The calls of monitor_notify_by_pid made for child k.
NotesOf(k) == {i \in 1..Len(reap.notes) : reap.notes[i].pid = k}

\* C15: the notifier calls the monitor exactly once for every child it
\* reaped (the call for the child collected last may still be awaited),
\* with the exit status of a child that exited and 128 plus the signal
\* number of a child a signal terminated; a failed notification does not
\* end the pass, which leaves no terminated child behind.
C15_Notified ==
  (reap.pc # "idle" /\ reap.who = "notifier") =>
    /\ \A k \in Kids :
         Cardinality(NotesOf(k)) =
           IF reap.kids[k].state = "reaped" /\ reap.pend # k THEN 1 ELSE 0
    /\ reap.pend # 0 <=> reap.pc = "notify"
    /\ \A i \in 1..Len(reap.notes) :
         LET st == reap.kids[reap.notes[i].pid].status IN
         /\ st.how = "exit" => reap.notes[i].code = st.code
         /\ st.how = "sig" => reap.notes[i].code = 128 + st.code
    /\ reap.pc = "done" => ReapZombies(reap) = {}

\* C15 witness: a finished pass of the notifier that reported 7 for a
\* child that exited with status 7 and 137 for a child SIGKILL
\* terminated, the first of the two notifications having failed.
C15_BothReported ==
  /\ reap.pc = "done" /\ reap.who = "notifier" /\ Len(reap.notes) = 2
  /\ ~reap.notes[1].ok
  /\ {reap.notes[1].code, reap.notes[2].code} = {7, 137}

\* A terminated process of invocation k that nobody has collected yet.
ZombieOf(k) ==
  \E p \in Pids : procs[p].req = k /\ procs[p].state = "zombie"

\* The pids the SIGCHLD handler of the subreaper has collected.
Logged == {e.pid : e \in hist.log}

\* While the subreaper runs, its handler collected every first-fork child
\* that is collected.
ReapedByHandler ==
  Running(SrvPid) =>
    \A p \in Pids :
      (procs[p].kind = "first" /\ procs[p].state = "reaped") => p \in Logged

\* The response of an invocation whose first-fork child completed the
\* handoff carries the pid that child wrote.
HandoffKept ==
  \A j \in 1..Len(hist.resps) : \A p \in Pids :
    (procs[p].kind = "first" /\ procs[p].req = hist.resps[j].inv
       /\ (procs[p].pc = "f_exit" \/ procs[p].status = Exited(0)))
      => RespPid(j) = procs[p].child

Orphaned(p) ==
  /\ procs[p].kind = "leader" /\ procs[p].state \in {"run", "zombie"}
  /\ \E q \in Pids : /\ procs[q].kind = "first" /\ procs[q].child = p
                     /\ procs[q].state \in {"zombie", "reaped"}

\* C17 as claimed: the child-subreaper flag is set and the SIGCHLD handler
\* installed before the first request frame is read, and in every
\* reachable state a sandbox leader whose first-fork parent has terminated
\* is a child of the subreaper service and not of process 1.
C17_AsClaimed ==
  /\ (srv.pc \in {"s_read", "s_fork", "s_handoff", "s_write"}
        \/ Len(hist.served) > 0) => (srv.subreaper /\ srv.handler)
  /\ \A p \in Pids : Orphaned(p) => procs[p].parent = SrvPid

\* C17, amended: the child-subreaper flag is set and the SIGCHLD handler
\* installed before the first request frame is read, and as long as the
\* subreaper service has not terminated a sandbox leader whose first-fork
\* parent has terminated is a child of the service and not of process 1.
C17_InitBeforeServing ==
  /\ (srv.pc \in {"s_read", "s_fork", "s_handoff", "s_write"}
        \/ Len(hist.served) > 0) => (srv.subreaper /\ srv.handler)
  /\ Running(SrvPid) =>
       \A p \in Pids : Orphaned(p) => procs[p].parent = SrvPid

\* C17 witness: a paused sandbox leader adopted by the subreaper after its
\* first-fork parent was collected.
C17_Adopted ==
  \E p \in Pids :
    /\ Orphaned(p) /\ procs[p].pc = "l_pause" /\ procs[p].parent = SrvPid
    /\ \E q \in Pids : procs[q].child = p /\ procs[q].state = "reaped"

\* C18 as claimed: when the response of a request with a non-empty netns
\* path is in the response pipe or with the caller, the sandbox leader
\* with the returned pid has joined that network namespace.
C18_AsClaimed ==
  \A j \in 1..Len(hist.resps) :
    (hist.served[j] # 0 /\ ReqOf(j).netns # <<>> /\ RespPid(j) \in Pids) =>
       procs[RespPid(j)].ns.net = 1

(***************************************************************************)
(* The first-fork child terminated from outside (a signal) between the     *)
(* second fork and the handoff write.                                      *)
(***************************************************************************)
FirstKilled ==
  /\ \E p \in Pids :
       /\ IsFirst(p, "f_write")
       /\ ChildDies(procs, p, Signaled(SigKill))
  /\ UNCHANGED <<io, fr, reap, kern, mainp, hist>>

NextCrash == Next \/ FirstKilled

SpecCrash == Init /\ [][NextCrash]_vars

FairCrash ==
  /\ Init /\ [][NextCrash]_vars
  /\ WF_vars(SrvMain) /\ WF_vars(SrvHandler)
  /\ WF_vars(FirstStep) /\ WF_vars(LeaderSetup)

\* The subreaper is in the handoff read of an invocation whose first-fork
\* child has terminated without writing the pid.
HandoffOrphaned ==
  /\ Running(SrvPid) /\ srv.pc = "s_handoff"
  /\ \E p \in Pids :
       /\ procs[p].kind = "first" /\ procs[p].req = srv.cur
       /\ procs[p].state \in {"zombie", "reaped"}
       /\ procs[p].status # Exited(0)

\* C19 as claimed: when the first-fork child terminates without having
\* written the pid, before or after the second fork, the handoff read of
\* the subreaper terminates.
C19_AsClaimed == HandoffOrphaned ~> ~HandoffOrphaned

\* C20: the subreaper leaks no descriptor across requests: whenever it is
\* about to read a request frame, the pipe descriptors it has open are
\* exactly the request read end and the response write end; both ends of
\* every handoff pipe of an earlier invocation are closed in it.
C20_NoLeak ==
  (Running(SrvPid) /\ srv.pc = "s_read") =>
     /\ procs[SrvPid].fds = {ReqR, RespW}
     /\ \A k \in Invs : {HR(k), HW(k)} \cap procs[SrvPid].fds = {}

\* C20 witness: the subreaper is back at the request read after it served
\* two requests, each of which created a handoff pipe.
C20_TwoServed ==
  /\ Running(SrvPid) /\ srv.pc = "s_read"
  /\ Len(hist.resps) >= 2
  /\ {1, 2} \subseteq hist.returned

====
